---- MODULE Spec2Model ----
(***************************************************************************)
(* circuit-compiler: AST -> SSA -> optimized SSA -> circuit -> R1CS and    *)
(* witness.  The conversion loop of SsaBuilder::convert is modelled one    *)
(* statement per step; the later stages follow main.rs.                    *)
(***************************************************************************)
EXTENDS Integers, Sequences, FiniteSets, TLC

\* ------------------------------------------------------------------ bounds
\* Longest program (number of statements) fed to SsaBuilder::convert; a
\* program ends with its return statement.
MaxStmts == 3
\* Cap on SsaBuilder.temp_counter.
MaxTemp == 2

\* ------------------------------------------------------- source programs
\* Identifiers and literals the programs are drawn from.
Names == {"x", "y"}
Lits == {3}

Var(n) == [tag |-> "Var", name |-> n]
Literal(n) == [tag |-> "Literal", n |-> n]
AddE(l, r) == [tag |-> "Add", left |-> l, right |-> r]
MulE(l, r) == [tag |-> "Mul", left |-> l, right |-> r]

\* term = IDENT | NUMBER
Atoms == {Var(n) : n \in Names} \cup {Literal(k) : k \in Lits}
\* expr = term | term "+" term | term "*" term
Exprs == Atoms \cup {AddE(l, r) : l \in Atoms, r \in Atoms}
               \cup {MulE(l, r) : l \in Atoms, r \in Atoms}

\* ------------------------------------------------------------- SSA values
SsaValue(n, v) == [name |-> n, version |-> v]

Const(d, v) == [op |-> "Const", dest |-> d, value |-> v]
Add(d, l, r) == [op |-> "Add", dest |-> d, left |-> l, right |-> r]
Mul(d, l, r) == [op |-> "Mul", dest |-> d, left |-> l, right |-> r]

\* format!("t{}", n)
TempName(n) == "t" \o ToString(n)

\* HashMap::get(..).copied().unwrap_or(0)
GetOr0(m, k) == IF k \in DOMAIN m THEN m[k] ELSE 0

\* HashMap::insert
Insert(m, k, v) == [j \in DOMAIN m \cup {k} |-> IF j = k THEN v ELSE m[j]]

\* variant: the and_modify increment is lost, every binding gets version 1
NextVersions_no_increment(vv, name) == Insert(vv, name, 1)

\* entry(name).and_modify(|v| *v += 1).or_insert(1): the map after the call
NextVersions(vv, name) == Insert(vv, name, IF name \in DOMAIN vv THEN vv[name] + 1 ELSE 1)

\* the version next_variable_version returns
next_variable_version(vv, name) == NextVersions(vv, name)[name]

\* new_temp: the value handed out at counter tc (the caller advances tc)
new_temp(tc) == SsaValue(TempName(tc), 0)

\* convert_expr on builder state b = [instructions, temp_counter, var_versions];
\* returns the builder state after lowering and the resulting value.
RECURSIVE convert_expr(_, _)
convert_expr(b, e) ==
  CASE e.tag = "Literal" ->
         LET temp == new_temp(b.temp_counter)
         IN [b |-> [b EXCEPT !.instructions = Append(@, Const(temp, e.n)),
                             !.temp_counter = @ + 1],
             val |-> temp]
    [] e.tag = "Var" ->
         [b |-> b, val |-> SsaValue(e.name, GetOr0(b.var_versions, e.name))]
    [] e.tag \in {"Add", "Mul"} ->
         LET l == convert_expr(b, e.left)
             r == convert_expr(l.b, e.right)
             result == new_temp(r.b.temp_counter)
             instr == IF e.tag = "Add" THEN Add(result, l.val, r.val)
                                       ELSE Mul(result, l.val, r.val)
         IN [b |-> [r.b EXCEPT !.instructions = Append(@, instr),
                               !.temp_counter = @ + 1],
             val |-> result]

\* the pop / re-push of Stmt::Let and Stmt::ConstDecl: the last instruction of
\* the list, whichever statement pushed it, gets the destination var_ssa
RetargetLast(instrs, var_ssa) ==
  IF instrs = <<>> THEN instrs
  ELSE [instrs EXCEPT ![Len(instrs)] = [@ EXCEPT !.dest = var_ssa]]

\* SsaProgram { instructions, return_value, public_inputs, private_inputs }
SsaProgram(instrs, ret, pub, priv) ==
  [instructions |-> instrs, return_value |-> ret,
   public_inputs |-> pub, private_inputs |-> priv]

\* ------------------------------------------------------- constant folder
\* variant: an Add of two known constants is folded with the product
try_fold_instruction_add_as_mul(constants, instr) ==
  IF instr.op = "Const"
  THEN [constants |-> Insert(constants, instr.dest, instr.value), instr |-> instr]
  ELSE IF instr.left \in DOMAIN constants /\ instr.right \in DOMAIN constants
       THEN LET result == constants[instr.left] * constants[instr.right]
            IN [constants |-> Insert(constants, instr.dest, result),
                instr |-> Const(instr.dest, result)]
       ELSE [constants |-> constants, instr |-> instr]

\* variant: the folded Const is named after the left operand
try_fold_instruction_left_dest(constants, instr) ==
  IF instr.op = "Const"
  THEN [constants |-> Insert(constants, instr.dest, instr.value), instr |-> instr]
  ELSE IF instr.left \in DOMAIN constants /\ instr.right \in DOMAIN constants
       THEN LET result == IF instr.op = "Add"
                          THEN constants[instr.left] + constants[instr.right]
                          ELSE constants[instr.left] * constants[instr.right]
            IN [constants |-> Insert(constants, instr.dest, result),
                instr |-> Const(instr.left, result)]
       ELSE [constants |-> constants, instr |-> instr]

\* variant: an instruction that is not folded still records its destination
try_fold_instruction_record_unfolded(constants, instr) ==
  IF instr.op = "Const"
  THEN [constants |-> Insert(constants, instr.dest, instr.value), instr |-> instr]
  ELSE IF instr.left \in DOMAIN constants /\ instr.right \in DOMAIN constants
       THEN LET result == IF instr.op = "Add"
                          THEN constants[instr.left] + constants[instr.right]
                          ELSE constants[instr.left] * constants[instr.right]
            IN [constants |-> Insert(constants, instr.dest, result),
                instr |-> Const(instr.dest, result)]
       ELSE [constants |-> Insert(constants, instr.dest, 0), instr |-> instr]

\* try_fold_instruction: the emitted instruction and the constants map after it
try_fold_instruction(constants, instr) ==
  IF instr.op = "Const"
  THEN [constants |-> Insert(constants, instr.dest, instr.value), instr |-> instr]
  ELSE IF instr.left \in DOMAIN constants /\ instr.right \in DOMAIN constants
       THEN LET result == IF instr.op = "Add"
                          THEN constants[instr.left] + constants[instr.right]
                          ELSE constants[instr.left] * constants[instr.right]
            IN [constants |-> Insert(constants, instr.dest, result),
                instr |-> Const(instr.dest, result)]
       ELSE [constants |-> constants, instr |-> instr]

RECURSIVE FoldFrom(_, _, _, _)
FoldFrom(instrs, i, constants, out) ==
  IF i > Len(instrs) THEN out
  ELSE LET f == try_fold_instruction(constants, instrs[i])
       IN FoldFrom(instrs, i + 1, f.constants, Append(out, f.instr))

\* folder.constants after the loop of optimize has handled the first k
\* instructions
RECURSIVE ConstantsAfter(_, _)
ConstantsAfter(instrs, k) ==
  IF k = 0 THEN <<>>
  ELSE try_fold_instruction(ConstantsAfter(instrs, k - 1), instrs[k]).constants

\* ConstantFolder::optimize
optimize(p) ==
  SsaProgram(FoldFrom(p.instructions, 1, <<>>, <<>>),
             p.return_value, p.public_inputs, p.private_inputs)

\* ------------------------------------------------- dead code eliminator
get_destination(instr) == instr.dest

get_inputs(instr) ==
  IF instr.op = "Const" THEN <<>> ELSE <<instr.left, instr.right>>

Range(s) == {s[i] : i \in DOMAIN s}

\* one `for instr in &instructions` scan of the first loop, from index i
RECURSIVE ScanDependent(_, _, _)
ScanDependent(instrs, i, input_dependent) ==
  IF i > Len(instrs) THEN input_dependent
  ELSE ScanDependent(instrs, i + 1,
         IF \E v \in Range(get_inputs(instrs[i])) : v \in input_dependent
         THEN input_dependent \cup {get_destination(instrs[i])}
         ELSE input_dependent)

\* variant: the first loop makes a single scan instead of running to a fixpoint
DependentLoop_single_scan(instrs, input_dependent, scans) ==
  [set |-> ScanDependent(instrs, 1, input_dependent), scans |-> scans + 1]

\* while changed { ... }: the set at the fixpoint and the number of scans made
RECURSIVE DependentLoop(_, _, _)
DependentLoop(instrs, input_dependent, scans) ==
  LET after == ScanDependent(instrs, 1, input_dependent)
  IN IF after = input_dependent
     THEN [set |-> after, scans |-> scans + 1]
     ELSE DependentLoop(instrs, after, scans + 1)

\* variant: the operands of a used instruction are not marked
ScanUsed_no_operands(instrs, i, used_values) == used_values

\* variant: the operands of every instruction are marked, used or not
RECURSIVE ScanUsed_unconditional(_, _, _)
ScanUsed_unconditional(instrs, i, used_values) ==
  IF i > Len(instrs) THEN used_values
  ELSE ScanUsed_unconditional(instrs, i + 1,
         used_values \cup Range(get_inputs(instrs[i])))

\* one scan of the second loop, from index i
RECURSIVE ScanUsed(_, _, _)
ScanUsed(instrs, i, used_values) ==
  IF i > Len(instrs) THEN used_values
  ELSE ScanUsed(instrs, i + 1,
         IF get_destination(instrs[i]) \in used_values
         THEN used_values \cup Range(get_inputs(instrs[i]))
         ELSE used_values)

\* variant: the loop makes one more scan after the scan that changed nothing
RECURSIVE UsedLoop_rescan(_, _, _)
UsedLoop_rescan(instrs, used_values, scans) ==
  LET after == ScanUsed(instrs, 1, used_values)
  IN IF after = used_values
     THEN [set |-> after, scans |-> scans + 2]
     ELSE UsedLoop_rescan(instrs, after, scans + 1)

\* the second `while changed` loop: the set at the fixpoint and the scans made
RECURSIVE UsedLoop(_, _, _)
UsedLoop(instrs, used_values, scans) ==
  LET after == ScanUsed(instrs, 1, used_values)
  IN IF after = used_values
     THEN [set |-> after, scans |-> scans + 1]
     ELSE UsedLoop(instrs, after, scans + 1)

\* the input_dependent set after the first loop
InputDependent(p) ==
  DependentLoop(p.instructions,
                Range(p.public_inputs) \cup Range(p.private_inputs), 0).set

\* variant: the return value is not seeded
UsedValues_no_return(p) ==
  UsedLoop(p.instructions,
           Range(p.public_inputs) \cup Range(p.private_inputs)
             \cup InputDependent(p), 0).set

\* the used_values set the filter reads
UsedValues(p) ==
  UsedLoop(p.instructions,
           Range(p.public_inputs) \cup Range(p.private_inputs)
             \cup {p.return_value} \cup InputDependent(p), 0).set

\* variant: Const instructions are never filtered out
FilterUsed_keep_const(instrs, used_values) ==
  SelectSeq(instrs, LAMBDA instr :
              instr.op = "Const" \/ get_destination(instr) \in used_values)

\* .into_iter().filter(|instr| used_values.contains(&dest)).collect()
FilterUsed(instrs, used_values) ==
  SelectSeq(instrs, LAMBDA instr : get_destination(instr) \in used_values)

\* variant: a declared input no surviving instruction reads, and that is not
\* the return value, is dropped from the input lists
eliminate_unused_inputs_dropped(p) ==
  LET kept == FilterUsed(p.instructions, UsedValues(p))
      read == {p.return_value}
                \cup UNION {Range(get_inputs(kept[i])) : i \in DOMAIN kept}
  IN SsaProgram(kept, p.return_value,
                SelectSeq(p.public_inputs, LAMBDA v : v \in read),
                SelectSeq(p.private_inputs, LAMBDA v : v \in read))

\* DeadCodeEliminator::eliminate
eliminate(p) ==
  SsaProgram(FilterUsed(p.instructions, UsedValues(p)),
             p.return_value, p.public_inputs, p.private_inputs)

\* --------------------------------------------------------- circuit builder
\* A Wire is its id.
ConstGate(o, v) == [kind |-> "Const", output |-> o, value |-> v]
AddGate(o, l, r) == [kind |-> "Add", output |-> o, left |-> l, right |-> r]
MulGate(o, l, r) == [kind |-> "Mul", output |-> o, left |-> l, right |-> r]

\* CircuitBuilder::new
NewBuilder ==
  [gates |-> <<>>, wire_counter |-> 0, ssa_to_wire |-> <<>>,
   public_inputs |-> <<>>, private_inputs |-> <<>>]

\* variant: the ssa_to_wire lookup is skipped, every call makes a new wire
get_or_create_wire_always_new(b, v) ==
  [b |-> [b EXCEPT !.ssa_to_wire = Insert(@, v, b.wire_counter),
                   !.wire_counter = @ + 1],
   wire |-> b.wire_counter]

\* get_or_create_wire (with new_wire): the builder after the call and the wire
get_or_create_wire(b, v) ==
  IF v \in DOMAIN b.ssa_to_wire
  THEN [b |-> b, wire |-> b.ssa_to_wire[v]]
  ELSE [b |-> [b EXCEPT !.ssa_to_wire = Insert(@, v, b.wire_counter),
                        !.wire_counter = @ + 1],
        wire |-> b.wire_counter]

\* convert_instruction: the builder after the gate was pushed
convert_instruction(b, instr) ==
  LET d == get_or_create_wire(b, instr.dest)
  IN IF instr.op = "Const"
     THEN [d.b EXCEPT !.gates = Append(@, ConstGate(d.wire, instr.value))]
     ELSE LET l == get_or_create_wire(d.b, instr.left)
              r == get_or_create_wire(l.b, instr.right)
          IN [r.b EXCEPT !.gates = Append(@,
                IF instr.op = "Add" THEN AddGate(d.wire, l.wire, r.wire)
                                    ELSE MulGate(d.wire, l.wire, r.wire))]

\* the two `for input in ...` loops of from_ssa
RECURSIVE AddInputs(_, _, _, _)
AddInputs(b, inputs, i, public) ==
  IF i > Len(inputs) THEN b
  ELSE LET w == get_or_create_wire(b, inputs[i])
           entry == <<inputs[i].name, w.wire>>
       IN AddInputs(IF public
                    THEN [w.b EXCEPT !.public_inputs = Append(@, entry)]
                    ELSE [w.b EXCEPT !.private_inputs = Append(@, entry)],
                    inputs, i + 1, public)

RECURSIVE AddInstructions(_, _, _)
AddInstructions(b, instrs, i) ==
  IF i > Len(instrs) THEN b
  ELSE AddInstructions(convert_instruction(b, instrs[i]), instrs, i + 1)

\* the builder of from_ssa just before the return value is resolved
BuilderOf(p) ==
  AddInstructions(
    AddInputs(AddInputs(NewBuilder, p.public_inputs, 1, TRUE),
              p.private_inputs, 1, FALSE),
    p.instructions, 1)

\* CircuitBuilder::from_ssa
from_ssa(p) ==
  LET out == get_or_create_wire(BuilderOf(p), p.return_value)
  IN [public_inputs |-> out.b.public_inputs,
      private_inputs |-> out.b.private_inputs,
      gates |-> out.b.gates,
      output_wire |-> out.wire]

\* the ssa_to_wire map when from_ssa returns
WireMap(p) == get_or_create_wire(BuilderOf(p), p.return_value).b.ssa_to_wire

\* ----------------------------------------------------------- R1CS lowering
\* wire ids a gate mentions (the vec![..] of the flat_map)
GateWires(g) ==
  IF g.kind = "Const" THEN {g.output} ELSE {g.output, g.left, g.right}

SetMax(S) == CHOOSE m \in S : \A k \in S : k <= m

\* variant: the output wire is left out of the maximum
num_wires_without_output(c) ==
  SetMax(UNION {GateWires(c.gates[i]) : i \in DOMAIN c.gates}
         \cup {c.public_inputs[i][2] : i \in DOMAIN c.public_inputs}
         \cup {c.private_inputs[i][2] : i \in DOMAIN c.private_inputs}
         \cup {0}) + 1

\* num_wires: max id over gates, inputs and the output wire, plus one
num_wires(c) ==
  SetMax(UNION {GateWires(c.gates[i]) : i \in DOMAIN c.gates}
         \cup {c.public_inputs[i][2] : i \in DOMAIN c.public_inputs}
         \cup {c.private_inputs[i][2] : i \in DOMAIN c.private_inputs}
         \cup {c.output_wire}) + 1

\* vec![0; n], indexed from 0
Zeros(n) == [i \in 0 .. n - 1 |-> 0]

\* the constraint of one gate; assignments in source order
GateConstraint(g, n) ==
  CASE g.kind = "Const" ->
         [a |-> [Zeros(n) EXCEPT ![0] = 1],
          b |-> [Zeros(n) EXCEPT ![0] = g.value],
          c |-> [Zeros(n) EXCEPT ![g.output] = 1]]
    [] g.kind = "Mul" ->
         [a |-> [Zeros(n) EXCEPT ![g.left] = 1],
          b |-> [Zeros(n) EXCEPT ![g.right] = 1],
          c |-> [Zeros(n) EXCEPT ![g.output] = 1]]
    [] g.kind = "Add" ->
         [a |-> [[Zeros(n) EXCEPT ![g.left] = 1] EXCEPT ![g.right] = 1],
          b |-> [Zeros(n) EXCEPT ![0] = 1],
          c |-> [Zeros(n) EXCEPT ![g.output] = 1]]

\* Circuit::to_r1cs
to_r1cs(c) ==
  LET n == num_wires(c)
  IN [num_constraints |-> Len(c.gates),
      num_variables |-> n,
      constraints |-> [i \in DOMAIN c.gates |-> GateConstraint(c.gates[i], n)],
      public_inputs |-> c.public_inputs,
      private_inputs |-> c.private_inputs,
      output_wire |-> c.output_wire]

\* ------------------------------------------------------ witness calculator
\* Result<i32, WitnessError>
Ok(v) == [tag |-> "Ok", arg |-> v]
Err(kind, a) == [tag |-> kind, arg |-> a]

\* Display for Wire
WireName(w) == "w" \o ToString(w)

\* one `for (name, wire) in &circuit.<kind>_inputs` loop of set_inputs, from
\* index i: stops at the first name the mapping lacks
RECURSIVE BindInputs(_, _, _, _, _)
BindInputs(wire_values, declared, vals, i, missing) ==
  IF i > Len(declared) THEN [wire_values |-> wire_values, err |-> <<>>]
  ELSE IF declared[i][1] \in DOMAIN vals
       THEN BindInputs(Insert(wire_values, declared[i][2], vals[declared[i][1]]),
                       declared, vals, i + 1, missing)
       ELSE [wire_values |-> wire_values, err |-> <<Err(missing, declared[i][1])>>]

\* variant: an absent mapping is accepted whatever the circuit declares
BindKind_absent_accepted(wire_values, declared, mapping, missing, none) ==
  IF mapping # <<>>
  THEN BindInputs(wire_values, declared, mapping[1], 1, missing)
  ELSE [wire_values |-> wire_values, err |-> <<>>]

\* one half of set_inputs: `if let Some(vals) = mapping {..} else if !declared.is_empty()`
BindKind(wire_values, declared, mapping, missing, none) ==
  IF mapping # <<>>
  THEN BindInputs(wire_values, declared, mapping[1], 1, missing)
  ELSE IF declared # <<>>
       THEN [wire_values |-> wire_values, err |-> <<Err(none, "")>>]
       ELSE [wire_values |-> wire_values, err |-> <<>>]

\* WitnessCalculator::set_inputs
set_inputs(wire_values, circuit, inputs) ==
  LET pub == BindKind(wire_values, circuit.public_inputs, inputs.public,
                      "MissingPublicInput", "NoPublicInputsProvided")
  IN IF pub.err # <<>> THEN pub
     ELSE BindKind(pub.wire_values, circuit.private_inputs, inputs.private,
                   "MissingPrivateInput", "NoPrivateInputsProvided")

\* variant: a Const gate leaves its output wire without a value
execute_gate_const_unset(wire_values, gate) ==
  IF gate.kind = "Const"
  THEN [wire_values |-> wire_values, err |-> <<>>]
  ELSE IF gate.left \notin DOMAIN wire_values
       THEN [wire_values |-> wire_values,
             err |-> <<Err("MissingWireValue", WireName(gate.left))>>]
       ELSE IF gate.right \notin DOMAIN wire_values
            THEN [wire_values |-> wire_values,
                  err |-> <<Err("MissingWireValue", WireName(gate.right))>>]
            ELSE [wire_values |->
                    Insert(wire_values, gate.output,
                           IF gate.kind = "Add"
                           THEN wire_values[gate.left] + wire_values[gate.right]
                           ELSE wire_values[gate.left] * wire_values[gate.right]),
                  err |-> <<>>]

\* WitnessCalculator::execute_gate
execute_gate(wire_values, gate) ==
  IF gate.kind = "Const"
  THEN [wire_values |-> Insert(wire_values, gate.output, gate.value), err |-> <<>>]
  ELSE IF gate.left \notin DOMAIN wire_values
       THEN [wire_values |-> wire_values,
             err |-> <<Err("MissingWireValue", WireName(gate.left))>>]
       ELSE IF gate.right \notin DOMAIN wire_values
            THEN [wire_values |-> wire_values,
                  err |-> <<Err("MissingWireValue", WireName(gate.right))>>]
            ELSE [wire_values |->
                    Insert(wire_values, gate.output,
                           IF gate.kind = "Add"
                           THEN wire_values[gate.left] + wire_values[gate.right]
                           ELSE wire_values[gate.left] * wire_values[gate.right]),
                  err |-> <<>>]

\* variant: a gate that fails is skipped and the loop goes on
RECURSIVE RunGates_continue(_, _, _)
RunGates_continue(wire_values, gates, i) ==
  IF i > Len(gates) THEN [wire_values |-> wire_values, err |-> <<>>, executed |-> i - 1]
  ELSE RunGates_continue(execute_gate(wire_values, gates[i]).wire_values, gates, i + 1)

\* `for gate in &circuit.gates { self.execute_gate(gate)?; }` from index i;
\* `executed` counts the gates that ran to completion
RECURSIVE RunGates(_, _, _)
RunGates(wire_values, gates, i) ==
  IF i > Len(gates) THEN [wire_values |-> wire_values, err |-> <<>>, executed |-> i - 1]
  ELSE LET g == execute_gate(wire_values, gates[i])
       IN IF g.err # <<>>
          THEN [wire_values |-> g.wire_values, err |-> g.err, executed |-> i - 1]
          ELSE RunGates(g.wire_values, gates, i + 1)

\* WitnessCalculator::calculate_witness on a fresh calculator: the wire_values
\* it is left with, its result, and how many gates it executed
calculate_witness(circuit, inputs) ==
  LET bound == set_inputs(<<>>, circuit, inputs)
  IN IF bound.err # <<>>
     THEN [wire_values |-> bound.wire_values, result |-> bound.err[1], executed |-> 0]
     ELSE LET run == RunGates(bound.wire_values, circuit.gates, 1)
          IN IF run.err # <<>>
             THEN [wire_values |-> run.wire_values, result |-> run.err[1],
                   executed |-> run.executed]
             ELSE [wire_values |-> run.wire_values,
                   result |-> IF circuit.output_wire \in DOMAIN run.wire_values
                              THEN Ok(run.wire_values[circuit.output_wire])
                              ELSE Err("MissingWireValue", WireName(circuit.output_wire)),
                   executed |-> run.executed]

\* the `witness` vector save_r1cs_witness writes: vec![0; max id + 1], then
\* every key of wire_values filled in (indexed from 0)
WitnessArray(wire_values) ==
  LET max_wire_id == IF DOMAIN wire_values = {} THEN 0 ELSE SetMax(DOMAIN wire_values)
  IN [i \in 0 .. max_wire_id |->
        IF i \in DOMAIN wire_values THEN wire_values[i] ELSE 0]

\* ------------------------------------------------------------ input files
\* InputFile { public: Option<HashMap>, private: Option<HashMap> }; an Option
\* is the empty sequence (None) or a one-element sequence (Some).
PublicVals == ("x" :> -2) @@ ("y" :> -3)
PrivateVals == ("x" :> -1) @@ ("y" :> 2)
FullInputs == [public |-> <<PublicVals>>, private |-> <<PrivateVals>>]
InputFiles == {FullInputs}

\* ------------------------------------------------------------------ state
VARIABLES
  program,         \* statements convert has consumed so far
  instructions,    \* SsaBuilder.instructions
  var_versions,    \* SsaBuilder.var_versions
  temp_counter,    \* SsaBuilder.temp_counter
  public_inputs,   \* SsaBuilder.public_inputs
  private_inputs,  \* SsaBuilder.private_inputs
  return_value,    \* convert's local Option<SsaValue>
  pc,              \* position in main
  ssa_program,     \* main: ssa_program
  folded_ssa,      \* main: folded_ssa
  optimized_ssa,   \* main: optimized_ssa
  circuit_after,   \* main: circuit_after
  r1cs,            \* main: r1cs
  inputs,          \* main: inputs
  wire_values,     \* WitnessCalculator.wire_values
  result           \* what calculate_witness returned

builder == <<instructions, var_versions, temp_counter, public_inputs,
             private_inputs, return_value>>
stages == <<ssa_program, folded_ssa, optimized_ssa, circuit_after, r1cs,
            inputs, wire_values, result>>
vars == <<program, pc, builder, stages>>

PublicInput(n) == [kind |-> "PublicInput", name |-> n]
PrivateInput(n) == [kind |-> "PrivateInput", name |-> n]
ConstDecl(n, v) == [kind |-> "ConstDecl", name |-> n, value |-> v]
Let(n, e) == [kind |-> "Let", name |-> n, expr |-> e]
Return(e) == [kind |-> "Return", expr |-> e]

\* SsaBuilder::new, before main has produced anything
Init ==
  /\ program = <<>>
  /\ instructions = <<>>
  /\ var_versions = <<>>
  /\ temp_counter = 0
  /\ public_inputs = <<>>
  /\ private_inputs = <<>>
  /\ return_value = <<>>
  /\ pc = "convert"
  /\ ssa_program = <<>>
  /\ folded_ssa = <<>>
  /\ optimized_ssa = <<>>
  /\ circuit_after = <<>>
  /\ r1cs = <<>>
  /\ inputs = <<>>
  /\ wire_values = <<>>
  /\ result = <<>>

\* the loop `for stmt in program.statements` has statements left: a binding
\* (leaving room for the closing return) or the return itself
MayBind == pc = "convert" /\ return_value = <<>> /\ Len(program) + 1 < MaxStmts
MayReturn == pc = "convert" /\ return_value = <<>> /\ Len(program) < MaxStmts

ExprState == [instructions |-> instructions, temp_counter |-> temp_counter,
              var_versions |-> var_versions]

\* Stmt::PublicInput
ConvertPublicInput ==
  \E name \in Names :
    /\ MayBind
    /\ program' = Append(program, PublicInput(name))
    /\ var_versions' = NextVersions(var_versions, name)
    /\ public_inputs' = Append(public_inputs,
                               SsaValue(name, next_variable_version(var_versions, name)))
    /\ UNCHANGED <<instructions, temp_counter, private_inputs, return_value, pc, stages>>

\* Stmt::PrivateInput
ConvertPrivateInput ==
  \E name \in Names :
    /\ MayBind
    /\ program' = Append(program, PrivateInput(name))
    /\ var_versions' = NextVersions(var_versions, name)
    /\ private_inputs' = Append(private_inputs,
                                SsaValue(name, next_variable_version(var_versions, name)))
    /\ UNCHANGED <<instructions, temp_counter, public_inputs, return_value, pc, stages>>

\* Stmt::ConstDecl
ConvertConstDecl ==
  \E name \in Names, value \in Lits :
    /\ MayBind
    /\ temp_counter < MaxTemp
    /\ program' = Append(program, ConstDecl(name, value))
    /\ temp_counter' = temp_counter + 1
    /\ var_versions' = NextVersions(var_versions, name)
    /\ instructions' =
         RetargetLast(Append(instructions, Const(new_temp(temp_counter), value)),
                      SsaValue(name, next_variable_version(var_versions, name)))
    /\ UNCHANGED <<public_inputs, private_inputs, return_value, pc, stages>>

\* variant: the new version is allocated before the expression is lowered
ConvertLet_version_first ==
  \E name \in Names, expr \in Exprs :
    LET lowered == convert_expr([ExprState EXCEPT
                                  !.var_versions = NextVersions(var_versions, name)],
                                expr)
    IN /\ MayBind
       /\ lowered.b.temp_counter <= MaxTemp
       /\ program' = Append(program, Let(name, expr))
       /\ temp_counter' = lowered.b.temp_counter
       /\ var_versions' = NextVersions(var_versions, name)
       /\ instructions' =
            RetargetLast(lowered.b.instructions,
                         SsaValue(name, next_variable_version(var_versions, name)))
       /\ UNCHANGED <<public_inputs, private_inputs, return_value, pc, stages>>

\* Stmt::Let
ConvertLet ==
  \E name \in Names, expr \in Exprs :
    LET lowered == convert_expr(ExprState, expr)
    IN /\ MayBind
       /\ lowered.b.temp_counter <= MaxTemp
       /\ program' = Append(program, Let(name, expr))
       /\ temp_counter' = lowered.b.temp_counter
       /\ var_versions' = NextVersions(var_versions, name)
       /\ instructions' =
            RetargetLast(lowered.b.instructions,
                         SsaValue(name, next_variable_version(var_versions, name)))
       /\ UNCHANGED <<public_inputs, private_inputs, return_value, pc, stages>>

\* Stmt::Return
ConvertReturn ==
  \E expr \in Exprs :
    LET lowered == convert_expr(ExprState, expr)
    IN /\ MayReturn
       /\ lowered.b.temp_counter <= MaxTemp
       /\ program' = Append(program, Return(expr))
       /\ temp_counter' = lowered.b.temp_counter
       /\ instructions' = lowered.b.instructions
       /\ return_value' = <<lowered.val>>
       /\ UNCHANGED <<var_versions, public_inputs, private_inputs, pc, stages>>

\* end of convert: the SsaProgram is built; `expect` aborts the compilation
\* when no return statement was seen, so nothing follows in that case
ConvertDone ==
  /\ pc = "convert"
  /\ return_value # <<>>
  /\ ssa_program' = <<SsaProgram(instructions, return_value[1],
                                 public_inputs, private_inputs)>>
  /\ pc' = "ssa"
  /\ UNCHANGED <<program, builder, folded_ssa, optimized_ssa, circuit_after,
                 r1cs, inputs, wire_values, result>>

\* main: ConstantFolder::optimize(ssa_program.clone())
Fold ==
  /\ pc = "ssa"
  /\ folded_ssa' = <<optimize(ssa_program[1])>>
  /\ pc' = "folded"
  /\ UNCHANGED <<program, builder, ssa_program, optimized_ssa, circuit_after,
                 r1cs, inputs, wire_values, result>>

\* main: DeadCodeEliminator::eliminate(folded_ssa)
Eliminate ==
  /\ pc = "folded"
  /\ optimized_ssa' = <<eliminate(folded_ssa[1])>>
  /\ pc' = "optimized"
  /\ UNCHANGED <<program, builder, ssa_program, folded_ssa, circuit_after,
                 r1cs, inputs, wire_values, result>>

\* main: CircuitBuilder::from_ssa(optimized_ssa)
BuildCircuit ==
  /\ pc = "optimized"
  /\ circuit_after' = <<from_ssa(optimized_ssa[1])>>
  /\ pc' = "circuit"
  /\ UNCHANGED <<program, builder, ssa_program, folded_ssa, optimized_ssa,
                 r1cs, inputs, wire_values, result>>

\* main: circuit_after.to_r1cs()
LowerR1cs ==
  /\ pc = "circuit"
  /\ r1cs' = <<to_r1cs(circuit_after[1])>>
  /\ pc' = "r1cs"
  /\ UNCHANGED <<program, builder, ssa_program, folded_ssa, optimized_ssa,
                 circuit_after, inputs, wire_values, result>>

\* main: calculator.calculate_witness(&circuit_after, inputs)
CalculateWitness ==
  \E file \in InputFiles :
    LET w == calculate_witness(circuit_after[1], file)
    IN /\ pc = "r1cs"
       /\ inputs' = <<file>>
       /\ wire_values' = w.wire_values
       /\ result' = <<w.result>>
       /\ pc' = "done"
       /\ UNCHANGED <<program, builder, ssa_program, folded_ssa, optimized_ssa,
                      circuit_after, r1cs>>

Next ==
  \/ ConvertPublicInput
  \/ ConvertPrivateInput
  \/ ConvertConstDecl
  \/ ConvertLet
  \/ ConvertReturn
  \/ ConvertDone
  \/ Fold
  \/ Eliminate
  \/ BuildCircuit
  \/ LowerR1cs
  \/ CalculateWitness

Spec == Init /\ [][Next]_vars

\* ------------------------------------------- the passes on any SsaProgram
\* Longest instruction list of the SsaPrograms handed to the passes directly.
MaxInstrs == 2

\* SsaValues and instructions those programs are made of: any destination,
\* any operands, defined or not, in any order
Values == {SsaValue("x", 1), SsaValue("t0", 0), SsaValue("t1", 0)}
ConstInstrs == {Const(d, k) : d \in Values, k \in Lits}
AddInstrs == {Add(d, l, r) : d \in Values, l \in Values, r \in Values}
MulInstrs == {Mul(d, l, r) : d \in Values, l \in Values, r \in Values}
InstrSeqs(I) == UNION {[1 .. k -> I] : k \in 0 .. MaxInstrs}

\* programs for the eliminator, which reads only destinations and operands:
\* one binary operation stands for both; the return value and the declared
\* input vary
DcePrograms ==
  {SsaProgram(is, rv, pub, <<>>) :
     is \in InstrSeqs(ConstInstrs \cup AddInstrs),
     rv \in Values,
     pub \in {<<>>, <<SsaValue("x", 1)>>}}

\* programs for the folder, which reads only the instruction list
FoldPrograms ==
  {SsaProgram(is, SsaValue("t1", 0), <<SsaValue("x", 1)>>, <<>>) :
     is \in InstrSeqs(ConstInstrs \cup AddInstrs \cup MulInstrs)}

\* main's state when the optimizer receives the SsaProgram p
Received(p) ==
  /\ ssa_program = <<p>>
  /\ pc = "ssa"
  /\ program = <<>>
  /\ instructions = <<>>
  /\ var_versions = <<>>
  /\ temp_counter = 0
  /\ public_inputs = <<>>
  /\ private_inputs = <<>>
  /\ return_value = <<>>
  /\ folded_ssa = <<>>
  /\ optimized_ssa = <<>>
  /\ circuit_after = <<>>
  /\ r1cs = <<>>
  /\ inputs = <<>>
  /\ wire_values = <<>>
  /\ result = <<>>

InitSsa == \E p \in DcePrograms : Received(p)

InitFold == \E p \in FoldPrograms : Received(p)

\* DeadCodeEliminator::eliminate(ssa_program)
EliminateSsa ==
  /\ pc = "ssa"
  /\ optimized_ssa' = <<eliminate(ssa_program[1])>>
  /\ pc' = "eliminated"
  /\ UNCHANGED <<program, builder, ssa_program, folded_ssa, circuit_after,
                 r1cs, inputs, wire_values, result>>

\* the eliminator applied to any SsaProgram
SpecSsa == InitSsa /\ [][EliminateSsa]_vars

\* the folder applied to any SsaProgram
SpecFold == InitFold /\ [][Fold]_vars

\* ------------------------------------------ circuits of any SsaProgram
\* programs for the circuit builder, which treats Add and Mul alike but for
\* the gate kind: every Const and Add, the Muls into one destination; the
\* return value varies, and the declared inputs (one of them named in no
\* instruction)
CircuitInstrs ==
  ConstInstrs \cup AddInstrs \cup {m \in MulInstrs : m.dest = SsaValue("t1", 0)}

\* the declared inputs of those programs: <<public_inputs, private_inputs>>
CircuitInputs ==
  {<< <<>>, <<>> >>,
   << <<SsaValue("x", 1)>>, <<>> >>,
   << <<SsaValue("x", 1)>>, <<SsaValue("y", 1)>> >>}

\* main's state when the circuit builder receives the SsaProgram p
ReceivedOptimized(p) ==
  /\ optimized_ssa = <<p>>
  /\ pc = "optimized"
  /\ program = <<>>
  /\ instructions = <<>>
  /\ var_versions = <<>>
  /\ temp_counter = 0
  /\ public_inputs = <<>>
  /\ private_inputs = <<>>
  /\ return_value = <<>>
  /\ ssa_program = <<>>
  /\ folded_ssa = <<>>
  /\ circuit_after = <<>>
  /\ r1cs = <<>>
  /\ inputs = <<>>
  /\ wire_values = <<>>
  /\ result = <<>>

InitCircuit ==
  \E k \in 0 .. MaxInstrs :
    \E is \in [1 .. k -> CircuitInstrs], rv \in Values, io \in CircuitInputs :
      ReceivedOptimized(SsaProgram(is, rv, io[1], io[2]))

\* the circuit builder and the R1CS lowering applied to any SsaProgram
SpecCircuit == InitCircuit /\ [][BuildCircuit \/ LowerR1cs]_vars

\* ----------------------------------------- declared inputs and input files
\* Most input declarations in a program handed to the witness calculator.
MaxDecls == 3

\* input declarations: <<TRUE, name>> is `public name`, <<FALSE, name>> is
\* `private name`
DeclSeqs == UNION {[1 .. k -> BOOLEAN \X Names] : k \in 0 .. MaxDecls}

\* the public (or private) input list convert builds for the declarations:
\* each declaration takes the next version of its name
DeclaredInputs(decls, public) ==
  LET Version(i) == Cardinality({j \in 1 .. i : decls[j][2] = decls[i][2]})
      Kept == SelectSeq([i \in DOMAIN decls |-> <<decls[i][1], SsaValue(decls[i][2], Version(i))>>],
                        LAMBDA d : d[1] = public)
  IN [i \in DOMAIN Kept |-> Kept[i][2]]

\* the program `<declarations> / return 3`
DeclProgram(decls) ==
  SsaProgram(<<Const(new_temp(0), 3)>>, new_temp(0),
             DeclaredInputs(decls, TRUE), DeclaredInputs(decls, FALSE))

\* Option<HashMap<String, i32>>: absent, or present with any subset of the names
Mappings(vals) == {<<>>} \cup {<<[n \in S |-> vals[n]]>> : S \in SUBSET Names}

\* every input file: each mapping absent, empty, partial or complete
AnyInputFiles ==
  {[public |-> pu, private |-> pr] : pu \in Mappings(PublicVals), pr \in Mappings(PrivateVals)}

InitBind == \E decls \in DeclSeqs : Received(DeclProgram(decls))

\* main: calculator.calculate_witness(&circuit_after, inputs), any input file
CalculateWitnessAny ==
  \E file \in AnyInputFiles :
    LET w == calculate_witness(circuit_after[1], file)
    IN /\ pc = "r1cs"
       /\ inputs' = <<file>>
       /\ wire_values' = w.wire_values
       /\ result' = <<w.result>>
       /\ pc' = "done"
       /\ UNCHANGED <<program, builder, ssa_program, folded_ssa, optimized_ssa,
                      circuit_after, r1cs>>

\* the pipeline after convert, on programs that declare inputs, with any
\* input file
SpecBind ==
  InitBind /\ [][Fold \/ Eliminate \/ BuildCircuit \/ LowerR1cs \/ CalculateWitnessAny]_vars

\* --------------------------------------------- convert as one call
\* SsaBuilder::new
NewSsaBuilder ==
  [instructions |-> <<>>, var_versions |-> <<>>, temp_counter |-> 0,
   public_inputs |-> <<>>, private_inputs |-> <<>>, return_value |-> <<>>]

\* one iteration of `for stmt in program.statements` on the builder b (with
\* convert's local return_value kept in the same record)
ConvertStmt(b, stmt) ==
  LET var_ssa == SsaValue(stmt.name, next_variable_version(b.var_versions, stmt.name))
  IN CASE stmt.kind = "PublicInput" ->
            [b EXCEPT !.var_versions = NextVersions(@, stmt.name),
                      !.public_inputs = Append(@, var_ssa)]
       [] stmt.kind = "PrivateInput" ->
            [b EXCEPT !.var_versions = NextVersions(@, stmt.name),
                      !.private_inputs = Append(@, var_ssa)]
       [] stmt.kind = "ConstDecl" ->
            [b EXCEPT !.instructions =
                        RetargetLast(Append(@, Const(new_temp(b.temp_counter), stmt.value)),
                                     var_ssa),
                      !.temp_counter = @ + 1,
                      !.var_versions = NextVersions(@, stmt.name)]
       [] stmt.kind = "Let" ->
            LET lowered == convert_expr(b, stmt.expr)
            IN [lowered.b EXCEPT !.instructions = RetargetLast(@, var_ssa),
                                 !.var_versions = NextVersions(@, stmt.name)]
       [] stmt.kind = "Return" ->
            LET lowered == convert_expr(b, stmt.expr)
            IN [lowered.b EXCEPT !.return_value = <<lowered.val>>]

\* the builder when the loop of convert has handled statements i.. of prog
RECURSIVE ConvertFrom(_, _, _)
ConvertFrom(b, prog, i) ==
  IF i > Len(prog) THEN b
  ELSE ConvertFrom(ConvertStmt(b, prog[i]), prog, i + 1)

\* SsaBuilder::convert
convert(prog) ==
  LET b == ConvertFrom(NewSsaBuilder, prog, 1)
  IN SsaProgram(b.instructions, b.return_value[1], b.public_inputs, b.private_inputs)

\* identifiers that include one spelled like a temporary (the lexer takes any
\* alphanumeric word that is not a keyword as an identifier)
TempLikeNames == {"x", "t0"}

AtomsOf(NS) == {Var(n) : n \in NS} \cup {Literal(k) : k \in Lits}
ExprsOf(NS) == AtomsOf(NS) \cup {AddE(l, r) : l \in AtomsOf(NS), r \in AtomsOf(NS)}
                           \cup {MulE(l, r) : l \in AtomsOf(NS), r \in AtomsOf(NS)}
BindingsOf(NS) ==
  {PublicInput(n) : n \in NS} \cup {PrivateInput(n) : n \in NS}
    \cup {ConstDecl(n, k) : n \in NS, k \in Lits}
    \cup {Let(n, e) : n \in NS, e \in ExprsOf(NS)}

\* main: SsaBuilder::new().convert(program), the whole call, on a program of
\* at most MaxStmts statements, the last one the return
ConvertProgram ==
  /\ pc = "convert"
  /\ program = <<>>
  /\ \E k \in 0 .. MaxStmts - 1 :
       \E bs \in [1 .. k -> BindingsOf(TempLikeNames)], e \in ExprsOf(TempLikeNames) :
         LET prog == Append(bs, Return(e))
             b == ConvertFrom(NewSsaBuilder, prog, 1)
         IN /\ b.temp_counter <= MaxTemp
            /\ program' = prog
            /\ instructions' = b.instructions
            /\ var_versions' = b.var_versions
            /\ temp_counter' = b.temp_counter
            /\ public_inputs' = b.public_inputs
            /\ private_inputs' = b.private_inputs
            /\ return_value' = b.return_value
            /\ ssa_program' = <<convert(prog)>>
            /\ pc' = "ssa"
            /\ UNCHANGED <<folded_ssa, optimized_ssa, circuit_after, r1cs, inputs,
                           wire_values, result>>

\* convert on programs whose identifiers may be spelled like temporaries
SpecConvert == Init /\ [][ConvertProgram]_vars

\* ------------------------------------- witnesses of any SsaProgram
\* programs for the witness calculator: any Const and Add over an input value
\* and a temporary, defined or not, in any order; the declared inputs vary
WitnessValues == {SsaValue("x", 1), SsaValue("t0", 0)}
WitnessInstrs ==
  {Const(d, k) : d \in WitnessValues, k \in Lits}
    \cup {Add(d, l, r) : d \in WitnessValues, l \in WitnessValues, r \in WitnessValues}

InitWitness ==
  \E k \in 0 .. MaxInstrs :
    \E is \in [1 .. k -> WitnessInstrs], rv \in WitnessValues, io \in CircuitInputs :
      ReceivedOptimized(SsaProgram(is, rv, io[1], io[2]))

\* circuit, R1CS and witness of any SsaProgram, with any input file
SpecWitness == InitWitness /\ [][BuildCircuit \/ LowerR1cs \/ CalculateWitnessAny]_vars

\* ------------------------------------------- reference reading of a program
\* Direct evaluation of the source program: each name denotes its most recent
\* binding, an input its supplied value.
RECURSIVE EvalExpr(_, _)
EvalExpr(env, e) ==
  CASE e.tag = "Literal" -> e.n
    [] e.tag = "Var" -> env[e.name]
    [] e.tag = "Add" -> EvalExpr(env, e.left) + EvalExpr(env, e.right)
    [] e.tag = "Mul" -> EvalExpr(env, e.left) * EvalExpr(env, e.right)

\* the environment after statement i (ret: value of the last return so far)
RECURSIVE RunStmts(_, _, _, _)
RunStmts(prog, i, file, st) ==
  IF i > Len(prog) THEN st
  ELSE LET stmt == prog[i]
           next ==
             CASE stmt.kind = "PublicInput" ->
                    [st EXCEPT !.env = Insert(@, stmt.name, file.public[1][stmt.name])]
               [] stmt.kind = "PrivateInput" ->
                    [st EXCEPT !.env = Insert(@, stmt.name, file.private[1][stmt.name])]
               [] stmt.kind = "ConstDecl" ->
                    [st EXCEPT !.env = Insert(@, stmt.name, stmt.value)]
               [] stmt.kind = "Let" ->
                    [st EXCEPT !.env = Insert(@, stmt.name, EvalExpr(st.env, stmt.expr))]
               [] stmt.kind = "Return" ->
                    [st EXCEPT !.ret = <<EvalExpr(st.env, stmt.expr)>>]
       IN RunStmts(prog, i + 1, file, next)

DirectValue(prog, file) == RunStmts(prog, 1, file, [env |-> <<>>, ret |-> <<>>]).ret[1]

RECURSIVE FreeVars(_)
FreeVars(e) ==
  CASE e.tag = "Literal" -> {}
    [] e.tag = "Var" -> {e.name}
    [] OTHER -> FreeVars(e.left) \cup FreeVars(e.right)

IsBinding(stmt) == stmt.kind \in {"PublicInput", "PrivateInput", "ConstDecl", "Let"}

\* how many of the first k statements bind name n
BindCount(prog, k, n) ==
  Cardinality({i \in 1 .. k : IsBinding(prog[i]) /\ prog[i].name = n})

\* every variable reference is preceded by a binding statement for its name
Scoped(prog) ==
  \A i \in DOMAIN prog :
    prog[i].kind \in {"Let", "Return"} =>
      \A n \in FreeVars(prog[i].expr) : BindCount(prog, i - 1, n) > 0

\* --------------------------------------------------------------- claims

\* C1: for a program with a return whose every variable reference follows a
\* binding of that name, and complete inputs, convert, from_ssa and
\* calculate_witness give Ok(v), v the directly evaluated return expression.
C1_EndToEndValue ==
  (pc = "ssa" /\ Scoped(program)) =>
    \A file \in InputFiles :
      calculate_witness(from_ssa(ssa_program[1]), file).result
        = Ok(DirectValue(program, file))

\* dot product of a coefficient vector with an assignment
RECURSIVE DotFrom(_, _, _)
DotFrom(v, x, i) ==
  IF i \notin DOMAIN v THEN 0
  ELSE v[i] * (IF i \in DOMAIN x THEN x[i] ELSE 0) + DotFrom(v, x, i + 1)
Dot(v, x) == DotFrom(v, x, 0)

Satisfies(k, x) == Dot(k.a, x) * Dot(k.b, x) = Dot(k.c, x)

\* the witness array with slot 0 fixed at 1
WitnessWithOne(wv) == [WitnessArray(wv) EXCEPT ![0] = 1]

\* C2: whenever calculate_witness succeeds, every constraint of to_r1cs on
\* the same circuit satisfies (a.x)*(b.x) = (c.x) for the witness array x
\* with slot 0 fixed at 1.
C2_ConstraintsHold ==
  (pc = "done" /\ result[1].tag = "Ok") =>
    \A i \in DOMAIN r1cs[1].constraints :
      Satisfies(r1cs[1].constraints[i], WitnessWithOne(wire_values))

SameOutcome(r1, r2) ==
  IF r1.tag = "Ok" THEN r2.tag = "Ok" /\ r2.arg = r1.arg ELSE r2.tag # "Ok"

\* C3: constant folding preserves the outcome of witness calculation: the
\* circuit of the folded program yields the same Ok value as the circuit of
\* the program convert returned, or both fail.
C3_FoldPreservesOutcome ==
  pc = "folded" =>
    \A file \in InputFiles :
      SameOutcome(calculate_witness(from_ssa(ssa_program[1]), file).result,
                  calculate_witness(from_ssa(folded_ssa[1]), file).result)

\* a program some instruction of which was folded and whose witness succeeds
C3_Witness ==
  /\ pc = "folded"
  /\ \E i \in DOMAIN ssa_program[1].instructions :
       /\ ssa_program[1].instructions[i].op \in {"Add", "Mul"}
       /\ folded_ssa[1].instructions[i].op = "Const"
  /\ calculate_witness(from_ssa(ssa_program[1]), FullInputs).result.tag = "Ok"

Dests(instrs) == {instrs[i].dest : i \in DOMAIN instrs}

\* C4: in the SsaProgram convert returns no two instructions share a
\* destination and no destination is a declared public or private input.
C4_SingleDefinition ==
  pc = "ssa" =>
    LET p == ssa_program[1]
    IN /\ \A i, j \in DOMAIN p.instructions :
            p.instructions[i].dest = p.instructions[j].dest => i = j
       /\ Dests(p.instructions)
            \cap (Range(p.public_inputs) \cup Range(p.private_inputs)) = {}

\* a returned program in which a declared input's name is bound again by an
\* instruction
C4_Witness ==
  /\ pc = "ssa"
  /\ Len(ssa_program[1].instructions) >= 2
  /\ \E d \in Dests(ssa_program[1].instructions),
        v \in Range(ssa_program[1].public_inputs) \cup Range(ssa_program[1].private_inputs) :
       d.name = v.name

\* operands of instructions k+1.. of the list that name source variables
SourceOperands(instrs, k) ==
  {v \in UNION {Range(get_inputs(instrs[i])) : i \in (k + 1) .. Len(instrs)} :
     v.name \in Names}

\* C5: the k-th binding of a name gets version k (so N bindings get N
\* distinct, strictly increasing versions), and every reference lowered by a
\* statement resolves to the number of bindings of its name made by earlier
\* statements, also inside the expression of the let that rebinds it.
C5_Versioning ==
  [][(pc = "convert" /\ program' # program) =>
       LET stmt == program'[Len(program')]
           k == Len(program)
       IN /\ IsBinding(stmt) =>
               var_versions'[stmt.name] = BindCount(program, k, stmt.name) + 1
          /\ stmt.kind \in {"PublicInput"} =>
               public_inputs'[Len(public_inputs')]
                 = SsaValue(stmt.name, BindCount(program, k, stmt.name) + 1)
          /\ stmt.kind \in {"PrivateInput"} =>
               private_inputs'[Len(private_inputs')]
                 = SsaValue(stmt.name, BindCount(program, k, stmt.name) + 1)
          /\ stmt.kind = "ConstDecl" =>
               instructions'[Len(instructions')].dest
                 = SsaValue(stmt.name, BindCount(program, k, stmt.name) + 1)
          /\ stmt.kind \in {"Let", "Return"} =>
               \A v \in SourceOperands(instructions', Len(instructions)) :
                 v.version = BindCount(program, k, v.name)
          /\ (stmt.kind = "Return" /\ stmt.expr.tag = "Var") =>
               return_value'[1]
                 = SsaValue(stmt.expr.name, BindCount(program, k, stmt.expr.name))
    ]_vars

\* a name bound twice, the second time by a let whose expression reads it
C5_Witness ==
  \E i \in DOMAIN program :
    /\ program[i].kind = "Let"
    /\ program[i].expr.tag \in {"Add", "Mul"}
    /\ program[i].name \in FreeVars(program[i].expr)
    /\ BindCount(program, i - 1, program[i].name) >= 1
    /\ var_versions[program[i].name] >= 2

\* every operand of a gate and the output wire is an input wire or the
\* output of an earlier gate
WellFormed(c) ==
  LET InputWires == {c.public_inputs[i][2] : i \in DOMAIN c.public_inputs}
                    \cup {c.private_inputs[i][2] : i \in DOMAIN c.private_inputs}
      Written(k) == InputWires \cup {c.gates[j].output : j \in 1 .. k}
  IN /\ \A i \in DOMAIN c.gates :
          c.gates[i].kind # "Const" =>
            {c.gates[i].left, c.gates[i].right} \subseteq Written(i - 1)
     /\ c.output_wire \in Written(Len(c.gates))

\* C6: the circuit built from convert's program, optimized or not, reads only
\* input wires and outputs of earlier gates, and calculate_witness with
\* complete inputs never returns MissingWireValue (stated here for programs
\* whose variable references all follow a binding).
C6_TopologicallySound ==
  (pc = "done" /\ Scoped(program)) =>
    /\ WellFormed(from_ssa(ssa_program[1]))
    /\ WellFormed(circuit_after[1])
    /\ result[1].tag # "MissingWireValue"
    /\ calculate_witness(from_ssa(ssa_program[1]), inputs[1]).result.tag
         # "MissingWireValue"

\* the instruction at index i of p is among the instructions of q
Present(p, i, q) == \E j \in DOMAIN q.instructions : q.instructions[j] = p.instructions[i]

Inputs(p) == Range(p.public_inputs) \cup Range(p.private_inputs)

\* C7: an instruction whose destination is the return value survives
\* elimination.
C7_ReturnProducerSurvives ==
  pc = "eliminated" =>
    \A i \in DOMAIN ssa_program[1].instructions :
      ssa_program[1].instructions[i].dest = ssa_program[1].return_value =>
        Present(ssa_program[1], i, optimized_ssa[1])

\* the return value has a producer that depends on no input, and another
\* instruction was removed
C7_Witness ==
  /\ pc = "eliminated"
  /\ ssa_program[1].public_inputs = <<>>
  /\ \E i \in DOMAIN ssa_program[1].instructions :
       ssa_program[1].instructions[i].dest = ssa_program[1].return_value
  /\ Len(optimized_ssa[1].instructions) < Len(ssa_program[1].instructions)

\* d is an operand of no instruction and is not the return value
NeverRead(p, d) ==
  /\ d # p.return_value
  /\ \A i \in DOMAIN p.instructions : d \notin Range(get_inputs(p.instructions[i]))

\* C8 as stated: every instruction whose destination is never read and is not
\* a declared input is absent after elimination.
C8_UnreadRemoved ==
  pc = "eliminated" =>
    \A i \in DOMAIN ssa_program[1].instructions :
      LET d == ssa_program[1].instructions[i].dest
      IN (NeverRead(ssa_program[1], d) /\ d \notin Inputs(ssa_program[1]))
           => ~Present(ssa_program[1], i, optimized_ssa[1])

\* values derived from a declared input through at most n instructions
RECURSIVE DerivedFromInput(_, _)
DerivedFromInput(p, n) ==
  IF n = 0 THEN Inputs(p)
  ELSE LET S == DerivedFromInput(p, n - 1)
       IN S \cup {p.instructions[i].dest : i \in
                    {j \in DOMAIN p.instructions :
                       Range(get_inputs(p.instructions[j])) \cap S # {}}}

DependsOnInput(p, d) == d \in DerivedFromInput(p, Len(p.instructions))

\* C8 amended: an instruction whose destination is never read, is not a
\* declared input and does not depend on a declared input is absent after
\* elimination.
C8_UnreadIndependentRemoved ==
  pc = "eliminated" =>
    \A i \in DOMAIN ssa_program[1].instructions :
      LET d == ssa_program[1].instructions[i].dest
      IN (/\ NeverRead(ssa_program[1], d)
          /\ d \notin Inputs(ssa_program[1])
          /\ ~DependsOnInput(ssa_program[1], d))
           => ~Present(ssa_program[1], i, optimized_ssa[1])

\* an input is declared, an unread instruction that does not depend on it was
\* removed and another instruction was kept
C8_Witness ==
  /\ pc = "eliminated"
  /\ ssa_program[1].public_inputs # <<>>
  /\ optimized_ssa[1].instructions # <<>>
  /\ \E i \in DOMAIN ssa_program[1].instructions :
       LET d == ssa_program[1].instructions[i].dest
       IN /\ NeverRead(ssa_program[1], d)
          /\ d \notin Inputs(ssa_program[1])
          /\ ~DependsOnInput(ssa_program[1], d)
          /\ ~Present(ssa_program[1], i, optimized_ssa[1])

\* C9: eliminating an eliminated program changes nothing.
C9_EliminateIdempotent ==
  pc = "eliminated" => eliminate(optimized_ssa[1]) = optimized_ssa[1]

\* the first elimination removed an instruction and kept another
C9_Witness ==
  /\ pc = "eliminated"
  /\ optimized_ssa[1].instructions # <<>>
  /\ Len(optimized_ssa[1].instructions) < Len(ssa_program[1].instructions)

\* C10: folding keeps the number of instructions, the destination at every
\* position, the return value and both input lists.
C10_FoldKeepsShape ==
  pc = "folded" =>
    /\ Len(folded_ssa[1].instructions) = Len(ssa_program[1].instructions)
    /\ \A i \in DOMAIN ssa_program[1].instructions :
         folded_ssa[1].instructions[i].dest = ssa_program[1].instructions[i].dest
    /\ folded_ssa[1].return_value = ssa_program[1].return_value
    /\ folded_ssa[1].public_inputs = ssa_program[1].public_inputs
    /\ folded_ssa[1].private_inputs = ssa_program[1].private_inputs

\* an Add or Mul was rewritten to a Const
C10_Witness ==
  /\ pc = "folded"
  /\ \E i \in DOMAIN ssa_program[1].instructions :
       /\ ssa_program[1].instructions[i].op \in {"Add", "Mul"}
       /\ folded_ssa[1].instructions[i].op = "Const"

\* destinations of the emitted instructions before position i that are Const:
\* the earlier instructions that were Const or were folded
KnownBefore(out, i) == {out[j].dest : j \in {k \in 1 .. i - 1 : out[k].op = "Const"}}

\* the value the latest such instruction gave to v
RecordedValue(out, i, v) ==
  out[SetMax({k \in 1 .. i - 1 : out[k].op = "Const" /\ out[k].dest = v})].value

OpValue(op, a, b) == IF op = "Add" THEN a + b ELSE a * b

SingleDefinition(instrs) ==
  \A i, j \in DOMAIN instrs : instrs[i].dest = instrs[j].dest => i = j

MissingAt(declared, mapping) ==
  {i \in DOMAIN declared : declared[i][1] \notin DOMAIN mapping[1]}

SetMin(S) == CHOOSE m \in S : \A k \in S : m <= k

\* the classification of one kind of input: no error (<<>>) or the error
Classify(declared, mapping, missing, none) ==
  IF mapping = <<>>
  THEN IF declared # <<>> THEN <<Err(none, "")>> ELSE <<>>
  ELSE IF MissingAt(declared, mapping) # {}
       THEN <<Err(missing, declared[SetMin(MissingAt(declared, mapping))][1])>>
       ELSE <<>>

BindErrors == {"NoPublicInputsProvided", "MissingPublicInput",
               "NoPrivateInputsProvided", "MissingPrivateInput"}

\* C12: calculate_witness reports NoPublicInputsProvided for an absent public
\* mapping when a public input is declared, MissingPublicInput(name) for the
\* first declared public name a present mapping lacks, the same for private
\* inputs once the public ones were all bound, and no binding error otherwise
\* (an absent mapping for a kind with no declared input included).
C12_InputClassification ==
  pc = "done" =>
    LET c == circuit_after[1]
        pub == Classify(c.public_inputs, inputs[1].public,
                        "MissingPublicInput", "NoPublicInputsProvided")
        priv == Classify(c.private_inputs, inputs[1].private,
                         "MissingPrivateInput", "NoPrivateInputsProvided")
    IN IF pub # <<>> THEN result[1] = pub[1]
       ELSE IF priv # <<>> THEN result[1] = priv[1]
       ELSE result[1].tag \notin BindErrors

\* the public input was bound, the private mapping is present and holds the
\* first declared private name but not the second
C12_Witness ==
  /\ pc = "done"
  /\ Len(circuit_after[1].public_inputs) = 1
  /\ Len(circuit_after[1].private_inputs) = 2
  /\ inputs[1].private # <<>>
  /\ circuit_after[1].private_inputs[1][1] \in DOMAIN inputs[1].private[1]
  /\ result[1] = Err("MissingPrivateInput", circuit_after[1].private_inputs[2][1])

\* every SsaValue the program names
AllValues(p) ==
  Inputs(p) \cup Dests(p.instructions) \cup {p.return_value}
    \cup UNION {Range(get_inputs(p.instructions[i])) : i \in DOMAIN p.instructions}

\* every wire id the circuit names
CircuitWires(c) ==
  UNION {GateWires(c.gates[i]) : i \in DOMAIN c.gates}
    \cup {c.public_inputs[i][2] : i \in DOMAIN c.public_inputs}
    \cup {c.private_inputs[i][2] : i \in DOMAIN c.private_inputs}
    \cup {c.output_wire}

\* C13: from_ssa gives every SsaValue of the program (input, destination,
\* operand, return value) one wire, used at each of its occurrences, distinct
\* values get distinct wires, and the wire ids of the circuit are exactly
\* 0 .. N-1, N the number of distinct values.
C13_WireUniqueness ==
  pc = "circuit" =>
    LET p == optimized_ssa[1]
        c == circuit_after[1]
        m == WireMap(p)
    IN /\ DOMAIN m = AllValues(p)
       /\ \A v, w \in DOMAIN m : m[v] = m[w] => v = w
       /\ CircuitWires(c) = 0 .. Cardinality(AllValues(p)) - 1
       /\ Len(c.gates) = Len(p.instructions)
       /\ \A i \in DOMAIN p.instructions :
            /\ c.gates[i].output = m[p.instructions[i].dest]
            /\ p.instructions[i].op # "Const" =>
                 /\ c.gates[i].left = m[p.instructions[i].left]
                 /\ c.gates[i].right = m[p.instructions[i].right]
       /\ c.output_wire = m[p.return_value]
       /\ \A i \in DOMAIN p.public_inputs :
            c.public_inputs[i] = <<p.public_inputs[i].name, m[p.public_inputs[i]]>>
       /\ \A i \in DOMAIN p.private_inputs :
            c.private_inputs[i] = <<p.private_inputs[i].name, m[p.private_inputs[i]]>>

\* a declared input is read twice by one instruction and again by the next,
\* and the return value is named nowhere else
C13_Witness ==
  /\ pc = "circuit"
  /\ LET p == optimized_ssa[1]
     IN /\ Len(p.instructions) = 2
        /\ p.public_inputs # <<>>
        /\ p.instructions[1].op = "Add"
        /\ p.instructions[1].left = p.public_inputs[1]
        /\ p.instructions[1].right = p.public_inputs[1]
        /\ p.instructions[2].op = "Mul"
        /\ p.instructions[2].left = p.public_inputs[1]
        /\ p.return_value \notin Inputs(p) \cup Dests(p.instructions)
        /\ Cardinality(AllValues(p)) = 4

\* the vector with a single 1 at index k
UnitAt(v, k) == v[k] = 1 /\ \A j \in DOMAIN v : j # k => v[j] = 0

\* C14: to_r1cs emits one constraint per gate, the i-th for the i-th gate,
\* and num_variables and the length of every a, b and c vector are the
\* largest wire id named by a gate, an input or the output wire, plus one.
C14_R1csShape ==
  pc = "r1cs" =>
    LET c == circuit_after[1]
        r == r1cs[1]
        width == SetMax(CircuitWires(c)) + 1
    IN /\ r.num_constraints = Len(c.gates)
       /\ Len(r.constraints) = Len(c.gates)
       /\ r.num_variables = width
       /\ \A i \in DOMAIN c.gates :
            LET k == r.constraints[i]
                g == c.gates[i]
            IN /\ DOMAIN k.a = 0 .. width - 1
               /\ DOMAIN k.b = 0 .. width - 1
               /\ DOMAIN k.c = 0 .. width - 1
               /\ UnitAt(k.c, g.output)
               /\ g.kind = "Const" => k.b[0] = g.value /\ UnitAt(k.a, 0)
               /\ g.kind = "Mul" => UnitAt(k.a, g.left) /\ UnitAt(k.b, g.right)
               /\ g.kind = "Add" => UnitAt(k.b, 0) /\ k.a[g.left] = 1 /\ k.a[g.right] = 1

\* two gates of different kinds, an input wire, and an output wire larger than
\* every wire a gate or an input names
C14_Witness ==
  /\ pc = "r1cs"
  /\ LET c == circuit_after[1]
     IN /\ Len(c.gates) = 2
        /\ c.gates[1].kind # c.gates[2].kind
        /\ c.public_inputs # <<>>
        /\ \A w \in CircuitWires([c EXCEPT !.output_wire = 0]) : w < c.output_wire
        /\ c.output_wire >= 3
        /\ r1cs[1].num_variables = c.output_wire + 1

\* the sets the two loops start from
DependentSeed(p) == Range(p.public_inputs) \cup Range(p.private_inputs)
UsedSeed(p) == DependentSeed(p) \cup {p.return_value} \cup InputDependent(p)

\* input_dependent (used_values) after k full scans of the first (second) loop
RECURSIVE DependentAfter(_, _)
DependentAfter(p, k) ==
  IF k = 0 THEN DependentSeed(p)
  ELSE ScanDependent(p.instructions, 1, DependentAfter(p, k - 1))

RECURSIVE UsedAfter(_, _)
UsedAfter(p, k) ==
  IF k = 0 THEN UsedSeed(p)
  ELSE ScanUsed(p.instructions, 1, UsedAfter(p, k - 1))

\* n scans of a loop with the sets S(0), S(1), ..: every scan but the last
\* adds a value, the last adds none, nothing is ever removed and n is at most
\* the number of distinct values of the program
LoopBounded(p, S(_), n) ==
  /\ n >= 1
  /\ n <= Cardinality(AllValues(p))
  /\ \A k \in 1 .. n : S(k - 1) \subseteq S(k) /\ S(k) \subseteq AllValues(p)
  /\ \A k \in 1 .. n - 1 : S(k - 1) # S(k)
  /\ S(n) = S(n - 1)

\* C15: both fixpoint loops of eliminate end: each scan adds a value to a set
\* that only grows or is the last one, and each loop makes at most as many
\* scans as the program has distinct SsaValues.
C15_LoopsTerminate ==
  pc = "eliminated" =>
    LET p == ssa_program[1]
        S1(k) == DependentAfter(p, k)
        S2(k) == UsedAfter(p, k)
    IN /\ LoopBounded(p, S1, DependentLoop(p.instructions, DependentSeed(p), 0).scans)
       /\ LoopBounded(p, S2, UsedLoop(p.instructions, UsedSeed(p), 0).scans)
       /\ UsedValues(p) = UsedAfter(p, UsedLoop(p.instructions, UsedSeed(p), 0).scans)

\* no input is declared and the second loop needs as many scans as the
\* program has values: two that each add an operand and the closing one
C15_Witness ==
  /\ pc = "eliminated"
  /\ LET p == ssa_program[1]
     IN /\ p.public_inputs = <<>>
        /\ Cardinality(AllValues(p)) = 3
        /\ UsedLoop(p.instructions, UsedSeed(p), 0).scans = 3
        /\ DependentLoop(p.instructions, DependentSeed(p), 0).scans = 1

\* the variable references of statement i of prog
RefsOf(prog, i) ==
  IF prog[i].kind \in {"Let", "Return"} THEN FreeVars(prog[i].expr) ELSE {}

\* the SsaValues the source identifiers of prog resolve to: a reference to the
\* number of earlier bindings of its name, a declaration or binding to the
\* next version of its name
ResolvedValues(prog) ==
  UNION {{SsaValue(n, BindCount(prog, i - 1, n)) : n \in RefsOf(prog, i)}
           \cup (IF IsBinding(prog[i])
                 THEN {SsaValue(prog[i].name, BindCount(prog, i, prog[i].name))}
                 ELSE {}) : i \in DOMAIN prog}

\* the SsaValues new_temp has handed out
TempValues(tc) == {new_temp(k) : k \in 0 .. tc - 1}

\* C16: in the program convert returns no temporary made by new_temp equals
\* an SsaValue a source reference, input declaration, const or let resolves
\* to, whatever the source identifiers are.
C16_NoTempCollision ==
  pc = "ssa" => TempValues(temp_counter) \cap ResolvedValues(program) = {}

\* C17: folding and elimination leave public_inputs and private_inputs as
\* they were, and the circuit of the optimized program lists the same input
\* names on the same wires as the circuit of the original program: public
\* inputs first, then private, in declaration order, from wire 0, used or not.
C17_InputsMaterialize ==
  pc = "circuit" =>
    LET p == ssa_program[1]
        before == from_ssa(p)
        after == circuit_after[1]
    IN /\ folded_ssa[1].public_inputs = p.public_inputs
       /\ folded_ssa[1].private_inputs = p.private_inputs
       /\ optimized_ssa[1].public_inputs = p.public_inputs
       /\ optimized_ssa[1].private_inputs = p.private_inputs
       /\ after.public_inputs = before.public_inputs
       /\ after.private_inputs = before.private_inputs
       /\ Len(after.public_inputs) = Len(p.public_inputs)
       /\ Len(after.private_inputs) = Len(p.private_inputs)
       /\ \A i \in DOMAIN p.public_inputs :
            after.public_inputs[i] = <<p.public_inputs[i].name, i - 1>>
       /\ \A i \in DOMAIN p.private_inputs :
            after.private_inputs[i]
              = <<p.private_inputs[i].name, Len(p.public_inputs) + i - 1>>

\* a public and a private input are declared and no instruction and no return
\* value reads either
C17_Witness ==
  /\ pc = "circuit"
  /\ ssa_program[1].public_inputs # <<>>
  /\ ssa_program[1].private_inputs # <<>>
  /\ \A v \in Inputs(ssa_program[1]) :
       /\ v # ssa_program[1].return_value
       /\ \A i \in DOMAIN ssa_program[1].instructions :
            v \notin Range(get_inputs(ssa_program[1].instructions[i]))
  /\ circuit_after[1].private_inputs[1][2] = 1

\* C18: a statement Let(name, expr) leaves every instruction appended by an
\* earlier statement as it was (destination and operands), for every expr, a
\* bare variable reference included; when lowering expr appended instructions
\* only the last of them is renamed, to the next version of name.
C18_LetRewritesOwn ==
  [][(pc = "convert" /\ program' # program /\ program'[Len(program')].kind = "Let") =>
       LET stmt == program'[Len(program')]
           lowered == convert_expr(ExprState, stmt.expr).b.instructions
       IN /\ Len(instructions') >= Len(instructions)
          /\ SubSeq(instructions', 1, Len(instructions)) = instructions
          /\ Len(lowered) > Len(instructions) =>
               /\ Len(instructions') = Len(lowered)
               /\ SubSeq(instructions', 1, Len(lowered) - 1)
                    = SubSeq(lowered, 1, Len(lowered) - 1)
               /\ instructions'[Len(lowered)]
                    = [lowered[Len(lowered)] EXCEPT
                         !.dest = SsaValue(stmt.name, var_versions'[stmt.name])]
    ]_vars

\* the least subset of the program's values that contains seed and satisfies
\* Closed: the values that lie in every such subset
LeastSet(p, seed, Closed(_)) ==
  {v \in AllValues(p) :
     \A S \in SUBSET AllValues(p) : (seed \subseteq S /\ Closed(S)) => v \in S}

\* the least set holding the declared inputs and the destination of every
\* instruction with an operand in it
LeastDependent(p) ==
  LET Closed(S) == \A i \in DOMAIN p.instructions :
                     Range(get_inputs(p.instructions[i])) \cap S # {}
                       => p.instructions[i].dest \in S
  IN LeastSet(p, Inputs(p), Closed)

\* the least set holding the inputs, the return value, the input-dependent
\* destinations, and the operands of every instruction whose destination it
\* holds
LeastUsed(p) ==
  LET Closed(S) == \A i \in DOMAIN p.instructions :
                     p.instructions[i].dest \in S
                       => Range(get_inputs(p.instructions[i])) \subseteq S
  IN LeastSet(p, Inputs(p) \cup {p.return_value} \cup LeastDependent(p), Closed)

\* C19: eliminate returns exactly the instructions whose destination is in
\* the least set `used`, in their original order, and nothing else of the
\* program changes.
C19_ExactlyUsedKept ==
  pc = "eliminated" =>
    LET p == ssa_program[1]
        used == LeastUsed(p)
    IN optimized_ssa[1]
         = SsaProgram(SelectSeq(p.instructions, LAMBDA instr : instr.dest \in used),
                      p.return_value, p.public_inputs, p.private_inputs)

\* an instruction that only depends on the input is kept although nothing
\* reads it, and the instruction before it is removed
C19_Witness ==
  /\ pc = "eliminated"
  /\ LET p == ssa_program[1]
     IN /\ Len(p.instructions) = 2
        /\ optimized_ssa[1].instructions = <<p.instructions[2]>>
        /\ p.instructions[2].dest # p.instructions[1].dest
        /\ NeverRead(p, p.instructions[2].dest)
        /\ p.instructions[2].dest \in LeastDependent(p) \ Inputs(p)

\* C20: the constraint of every Add gate, one with left = right included,
\* reads (x[left] + x[right]) * 1 = x[output]: for every assignment x (here
\* every 0/1 assignment, which decides a linear form) a.x = x[left] + x[right]
\* and c.x = x[output].
C20_AddConstraint ==
  pc = "r1cs" =>
    \A i \in DOMAIN circuit_after[1].gates :
      LET g == circuit_after[1].gates[i]
          k == r1cs[1].constraints[i]
      IN g.kind = "Add" =>
           \A x \in [0 .. r1cs[1].num_variables - 1 -> {0, 1}] :
             /\ Dot(k.a, x) = x[g.left] + x[g.right]
             /\ Dot(k.c, x) = x[g.output]

\* the input wires of a circuit
InputWires(c) ==
  {c.public_inputs[i][2] : i \in DOMAIN c.public_inputs}
    \cup {c.private_inputs[i][2] : i \in DOMAIN c.private_inputs}

\* the value the file supplies for input wire w (public entries first)
Supplied(c, file, w) ==
  IF \E i \in DOMAIN c.public_inputs : c.public_inputs[i][2] = w
  THEN file.public[1][c.public_inputs[CHOOSE i \in DOMAIN c.public_inputs :
                                        c.public_inputs[i][2] = w][1]]
  ELSE file.private[1][c.private_inputs[CHOOSE i \in DOMAIN c.private_inputs :
                                          c.private_inputs[i][2] = w][1]]

\* wire values once the inputs are bound and the first k gates have run
RECURSIVE ValuesAfter(_, _, _)
ValuesAfter(c, file, k) ==
  IF k = 0 THEN set_inputs(<<>>, c, file).wire_values
  ELSE execute_gate(ValuesAfter(c, file, k - 1), c.gates[k]).wire_values

\* gate k finds an operand without a value
FailsAt(c, file, k) == execute_gate(ValuesAfter(c, file, k - 1), c.gates[k]).err # <<>>

\* C21: when calculate_witness fails with one of the four input errors no
\* gate has run: only input wires hold values, each the value supplied for
\* it, and no other gate output holds one; when a gate fails with
\* MissingWireValue the wire values are those left by the gates before it, so
\* no later gate has run, and that gate's error is the result.
C21_ErrorsStopExecution ==
  pc = "done" =>
    LET c == circuit_after[1]
        file == inputs[1]
        Failing == {k \in DOMAIN c.gates : FailsAt(c, file, k)}
    IN /\ result[1].tag \in BindErrors =>
            /\ DOMAIN wire_values \subseteq InputWires(c)
            /\ \A w \in DOMAIN wire_values : wire_values[w] = Supplied(c, file, w)
            /\ \A i \in DOMAIN c.gates :
                 c.gates[i].output \notin InputWires(c)
                   => c.gates[i].output \notin DOMAIN wire_values
       /\ (result[1].tag \notin BindErrors /\ Failing # {}) =>
            LET first == SetMin(Failing)
            IN /\ result[1] = execute_gate(ValuesAfter(c, file, first - 1),
                                           c.gates[first]).err[1]
               /\ wire_values = ValuesAfter(c, file, first - 1)
               /\ \A j \in DOMAIN c.gates :
                    (j > first /\ c.gates[j].output \notin DOMAIN ValuesAfter(c, file, first - 1))
                      => c.gates[j].output \notin DOMAIN wire_values

\* the inputs were bound, the first gate failed with MissingWireValue and the
\* Const gate after it left its output without a value
C21_Witness ==
  /\ pc = "done"
  /\ circuit_after[1].public_inputs # <<>>
  /\ Len(circuit_after[1].gates) = 2
  /\ circuit_after[1].gates[2].kind = "Const"
  /\ result[1].tag = "MissingWireValue"
  /\ circuit_after[1].gates[2].output \notin DOMAIN wire_values
  /\ DOMAIN wire_values = InputWires(circuit_after[1])

\* C22: for the program p convert returned and inputs for which the circuit
\* of p evaluates to Ok(v), the circuit of eliminate(p) evaluates to Ok(v)
\* too; and every operand of an instruction eliminate retains that has a
\* defining instruction in p has that instruction retained.
C22_EliminatePreservesResult ==
  pc = "ssa" =>
    LET p == ssa_program[1]
        q == eliminate(p)
    IN /\ \A file \in InputFiles :
            LET r == calculate_witness(from_ssa(p), file).result
            IN r.tag = "Ok" => calculate_witness(from_ssa(q), file).result = r
       /\ \A j \in DOMAIN q.instructions :
            \A v \in Range(get_inputs(q.instructions[j])) :
              \A i \in DOMAIN p.instructions :
                p.instructions[i].dest = v => Present(p, i, q)

\* the program evaluates to Ok, and elimination removed an instruction and
\* retained another
C22_Witness ==
  /\ pc = "ssa"
  /\ calculate_witness(from_ssa(ssa_program[1]), FullInputs).result.tag = "Ok"
  /\ LET p == ssa_program[1]
         q == eliminate(p)
     IN /\ Len(q.instructions) < Len(p.instructions)
        /\ q.instructions # <<>>

\* C23: when calculate_witness returns Ok on a circuit from_ssa built, the
\* wire values held before the first gate are exactly those of the declared
\* input wires, and at the end every wire id in 0 .. N-1 holds a value, N the
\* num_variables of to_r1cs on that circuit; the witness vector has length N
\* and each entry is the value held for its wire, none a defaulted 0.
C23_WireValuesTotal ==
  (pc = "done" /\ result[1].tag = "Ok") =>
    LET c == circuit_after[1]
        N == r1cs[1].num_variables
        witness == WitnessArray(wire_values)
    IN /\ DOMAIN ValuesAfter(c, inputs[1], 0) = InputWires(c)
       /\ N = Cardinality(CircuitWires(c))
       /\ DOMAIN wire_values = 0 .. N - 1
       /\ DOMAIN witness = 0 .. N - 1
       /\ \A i \in 0 .. N - 1 :
            i \in DOMAIN wire_values /\ witness[i] = wire_values[i]

\* an Ok result on a circuit with an input wire, an Add gate and a Const
\* gate whose output nothing reads
C23_Witness ==
  /\ pc = "done"
  /\ result[1].tag = "Ok"
  /\ InputWires(circuit_after[1]) # {}
  /\ Len(circuit_after[1].gates) = 2
  /\ \E i, j \in DOMAIN circuit_after[1].gates :
       /\ circuit_after[1].gates[i].kind = "Add"
       /\ circuit_after[1].gates[j].kind = "Const"
       /\ circuit_after[1].gates[j].output # circuit_after[1].output_wire
       /\ circuit_after[1].gates[j].output \notin InputWires(circuit_after[1])
  /\ r1cs[1].num_variables = Cardinality(DOMAIN wire_values)

====
